---- MODULE Spec2Model ----
(***************************************************************************)
(* Daily bill generator: the rate engine (calculateRate), the bill list,   *)
(* the entry form, the employee directory with its persisted copy and its  *)
(* CSV import, and the number-to-words utility.                            *)
(*                                                                         *)
(* Strings are TLA+ strings; trim, includes and split are computed on      *)
(* them character by character.                                            *)
(***************************************************************************)
EXTENDS Integers, Sequences, FiniteSets, TLC

VARIABLES
    employees,      \* App.tsx:9   the directory (useState<Employee[]>)
    store,          \* App.tsx:65  localStorage['tusuka_employees']
    billItems,      \* App.tsx:19  the bill list
    billType,       \* App.tsx:20
    nightSoRate,    \* App.tsx:28
    formData,       \* App.tsx:31  the entry form
    suggestions,    \* App.tsx:38  the employees offered under the name field
    showSuggestions, \* App.tsx:39
    nextId,         \* the next fresh identifier (Date.now() + Math.random())
    readers,        \* FileReaders whose onload has not run yet (App.tsx:268)
    call,           \* the pure function under test and its arguments / result
    renders,        \* generateBillPDF calls that wait for the font (pdfService.ts:38)
    saved,          \* the documents saved, oldest first (pdfService.ts:176)
    notice          \* the message of the last alert of handleGeneratePDF (App.tsx:242)

vars == <<employees, store, billItems, billType, nightSoRate, formData,
          suggestions, showSuggestions, nextId, readers, call, renders, saved, notice>>

\* the state of document generation
pdfVars == <<renders, saved, notice>>

-----------------------------------------------------------------------------
(* Bounds of the model *)

\* identifiers handed out while a bill is assembled (entries added)
MaxIds == 4
\* identifiers handed out while the directory is filled (entries and imported rows)
MaxDirectoryIds == 2
\* identifiers handed out around an export (entries, and rows imported back)
MaxExportIds == 3
\* identifiers handed out while entries are added around an import
MaxImportIds == 3
\* records of a directory found in the store when the application starts
MaxStoredRecords == 2
\* identifiers handed out while the entry form is exercised
MaxFormIds == 2
\* identifiers handed out while documents are generated
MaxPdfIds == 2
\* documents requested
MaxRenders == 1
\* file reads in flight at once (imports started and not yet loaded)
MaxReaders == 1
\* night rates tried on calculateRate: 0, 50, ..., 50 * MaxNightStep
MaxNightStep == 8
\* numberToWords is applied to 0 .. MaxNum
MaxNum == 9999

-----------------------------------------------------------------------------
(* String helpers: String.prototype.trim / includes *)

StrAt(s, i) == SubSeq(s, i, i)

IsSpace(c) == c \in {" ", "\t", "\n", "\r"}

RECURSIVE TrimStart(_)
TrimStart(s) ==
    IF Len(s) = 0 THEN s
    ELSE IF IsSpace(StrAt(s, 1)) THEN TrimStart(SubSeq(s, 2, Len(s)))
    ELSE s

RECURSIVE TrimEnd(_)
TrimEnd(s) ==
    IF Len(s) = 0 THEN s
    ELSE IF IsSpace(StrAt(s, Len(s))) THEN TrimEnd(SubSeq(s, 1, Len(s) - 1))
    ELSE s

Trim(s) == TrimEnd(TrimStart(s))

Includes(s, sub) ==
    \E i \in 1..(Len(s) - Len(sub) + 1) : SubSeq(s, i, i + Len(sub) - 1) = sub

UpperCase == "ABCDEFGHIJKLMNOPQRSTUVWXYZ"
LowerCase == "abcdefghijklmnopqrstuvwxyz"

\* each upper-case letter's lower-case letter
LowerOf ==
    [c \in {StrAt(UpperCase, i) : i \in 1..Len(UpperCase)} |->
        StrAt(LowerCase, CHOOSE i \in 1..Len(UpperCase) : StrAt(UpperCase, i) = c)]

LowerChar(c) == IF c \in DOMAIN LowerOf THEN LowerOf[c] ELSE c

RECURSIVE ToLowerCase(_)
ToLowerCase(s) ==
    IF Len(s) = 0 THEN s
    ELSE LowerChar(StrAt(s, 1)) \o ToLowerCase(SubSeq(s, 2, Len(s)))

-----------------------------------------------------------------------------
(* types: BillType *)

TIFFIN == "TIFFIN BILL"
HOLIDAY == "HOLIDAY BILL"
DAILY_LABOUR == "DAILY LABOUR BILL"
NIGHT_ENTERTAINMENT == "NIGHT ENTERTAINMENT BILL"

BillTypes == {TIFFIN, HOLIDAY, DAILY_LABOUR, NIGHT_ENTERTAINMENT}

SO == "S/O"
LABOUR == "LABOUR"
EXECUTIVE == "JR. SUPPLY CHAIN EXECUTIVE"

-----------------------------------------------------------------------------
(* Rate engine *)

\* faulty variant: Holiday without the LABOUR rule
calculateRateHolidayFlat(type, designation, currentNightRate) ==
    IF type = TIFFIN THEN 50
    ELSE IF type = DAILY_LABOUR THEN 600
    ELSE IF type = HOLIDAY THEN 800
    ELSE IF type = NIGHT_ENTERTAINMENT
         THEN (IF designation = LABOUR THEN 150 ELSE currentNightRate)
    ELSE 0

\* faulty variant: Night Entertainment with the default rate, not the configured one
calculateRateNightDefault(type, designation, currentNightRate) ==
    IF type = TIFFIN THEN 50
    ELSE IF type = DAILY_LABOUR THEN 600
    ELSE IF type = HOLIDAY THEN (IF designation = LABOUR THEN 600 ELSE 800)
    ELSE IF type = NIGHT_ENTERTAINMENT
         THEN (IF designation = LABOUR THEN 150 ELSE 350)
    ELSE 0

\* faulty variant: Daily Labour falling through to the Holiday rule
calculateRateDailyAsHoliday(type, designation, currentNightRate) ==
    IF type = TIFFIN THEN 50
    ELSE IF type \in {DAILY_LABOUR, HOLIDAY}
         THEN (IF designation = LABOUR THEN 600 ELSE 800)
    ELSE IF type = NIGHT_ENTERTAINMENT
         THEN (IF designation = LABOUR THEN 150 ELSE currentNightRate)
    ELSE 0

calculateRate(type, designation, currentNightRate) ==
    IF type = TIFFIN THEN 50
    ELSE IF type = DAILY_LABOUR THEN 600
    ELSE IF type = HOLIDAY THEN (IF designation = LABOUR THEN 600 ELSE 800)
    ELSE IF type = NIGHT_ENTERTAINMENT
         THEN (IF designation = LABOUR THEN 150 ELSE currentNightRate)
    ELSE 0

-----------------------------------------------------------------------------
(* Number to words *)

ONES == <<"", "One", "Two", "Three", "Four", "Five", "Six", "Seven", "Eight", "Nine">>
TEENS == <<"Ten", "Eleven", "Twelve", "Thirteen", "Fourteen", "Fifteen", "Sixteen",
           "Seventeen", "Eighteen", "Nineteen">>
TENS == <<"", "", "Twenty", "Thirty", "Forty", "Fifty", "Sixty", "Seventy", "Eighty",
          "Ninety">>

\* a JavaScript array read: out of range is undefined, which += writes as "undefined"
ArrayAt(arr, i) == IF i \in 0..(Len(arr) - 1) THEN arr[i + 1] ELSE "undefined"

\* faulty variant: the chunk is returned without trim()
convertChunkUntrimmed(num) ==
    LET s1 == IF num >= 100 THEN ArrayAt(ONES, num \div 100) \o " Hundred " ELSE ""
        n1 == IF num >= 100 THEN num % 100 ELSE num
        s2 == IF n1 >= 20 THEN s1 \o ArrayAt(TENS, n1 \div 10) \o " " ELSE s1
        n2 == IF n1 >= 20 THEN n1 % 10 ELSE n1
        s3 == IF n2 >= 10 /\ n2 < 20 THEN s2 \o ArrayAt(TEENS, n2 - 10) \o " " ELSE s2
        n3 == IF n2 >= 10 /\ n2 < 20 THEN 0 ELSE n2
        s4 == IF n3 > 0 THEN s3 \o ArrayAt(ONES, n3) \o " " ELSE s3
    IN  s4

convertChunk(num) ==
    LET s1 == IF num >= 100 THEN ArrayAt(ONES, num \div 100) \o " Hundred " ELSE ""
        n1 == IF num >= 100 THEN num % 100 ELSE num
        s2 == IF n1 >= 20 THEN s1 \o ArrayAt(TENS, n1 \div 10) \o " " ELSE s1
        n2 == IF n1 >= 20 THEN n1 % 10 ELSE n1
        s3 == IF n2 >= 10 /\ n2 < 20 THEN s2 \o ArrayAt(TEENS, n2 - 10) \o " " ELSE s2
        n3 == IF n2 >= 10 /\ n2 < 20 THEN 0 ELSE n2
        s4 == IF n3 > 0 THEN s3 \o ArrayAt(ONES, n3) \o " " ELSE s3
    IN  Trim(s4)

numberToWords(num) ==
    IF num = 0 THEN "Zero"
    ELSE LET w1 == IF num \div 1000 > 0
                   THEN convertChunk(num \div 1000) \o " Thousand "
                   ELSE ""
             n1 == IF num \div 1000 > 0 THEN num % 1000 ELSE num
             w2 == w1 \o convertChunk(n1)
         IN  Trim(w2) \o " Taka Only"

-----------------------------------------------------------------------------
(* Number(string), String(number), JSON.stringify; String.prototype.split *)

\* the number NaN, which no amount or rate of the model equals
NaN == -1

\* the value null where a number is expected (JSON.parse of a NaN that was saved)
JsNull == -2

Digits == <<"0", "1", "2", "3", "4", "5", "6", "7", "8", "9">>

IsDigit(c) == \E d \in 1..10 : Digits[d] = c

DigitValue(c) == (CHOOSE d \in 1..10 : Digits[d] = c) - 1

\* a run of decimal digits
IsNumeric(s) == Len(s) > 0 /\ \A i \in 1..Len(s) : IsDigit(StrAt(s, i))

RECURSIVE ParseDigits(_, _)
ParseDigits(s, acc) ==
    IF Len(s) = 0 THEN acc
    ELSE ParseDigits(SubSeq(s, 2, Len(s)), acc * 10 + DigitValue(StrAt(s, 1)))

\* Number(s) for the strings a CSV column holds here: surrounding white space is
\* ignored, the empty string is 0, a run of decimal digits is its value, and
\* anything else is NaN.
Number(s) ==
    LET t == Trim(s)
    IN  IF Len(t) = 0 THEN 0
        ELSE IF \A i \in 1..Len(t) : IsDigit(StrAt(t, i)) THEN ParseDigits(t, 0)
        ELSE NaN

RECURSIVE NumToStr(_)
NumToStr(n) ==
    IF n = NaN THEN "NaN"
    ELSE IF n = JsNull THEN "null"
    ELSE IF n < 10 THEN Digits[n + 1]
    ELSE NumToStr(n \div 10) \o Digits[(n % 10) + 1]

\* String.prototype.split on a one-character separator
RECURSIVE Split(_, _)
Split(s, sep) ==
    IF \E i \in 1..Len(s) : StrAt(s, i) = sep
    THEN LET k == CHOOSE i \in 1..Len(s) :
                    /\ StrAt(s, i) = sep
                    /\ \A j \in 1..(i - 1) : StrAt(s, j) # sep
         IN  <<SubSeq(s, 1, k - 1)>> \o Split(SubSeq(s, k + 1, Len(s)), sep)
    ELSE <<s>>

RECURSIVE Join(_, _)
Join(parts, sep) ==
    IF Len(parts) = 0 THEN ""
    ELSE IF Len(parts) = 1 THEN parts[1]
    ELSE parts[1] \o sep \o Join(Tail(parts), sep)

Quote(s) == "\"" \o s \o "\""

\* JSON.stringify of one Employee; a number that is NaN, or null, is written as null
EmployeeJSON(e) ==
    "{" \o Quote("id") \o ":" \o Quote(NumToStr(e.id))
        \o "," \o Quote("name") \o ":" \o Quote(e.name)
        \o "," \o Quote("cardNo") \o ":" \o Quote(e.cardNo)
        \o "," \o Quote("designation") \o ":" \o Quote(e.designation)
        \o "," \o Quote("defaultTaka") \o ":"
        \o (IF e.defaultTaka \in {NaN, JsNull} THEN "null" ELSE NumToStr(e.defaultTaka))
        \o "}"

JSONstringify(emps) ==
    "[" \o Join([i \in 1..Len(emps) |-> EmployeeJSON(emps[i])], ",") \o "]"

-----------------------------------------------------------------------------
(* JSON.parse, for the texts the store holds here: an array of Employee objects *)
(* as JSON.stringify writes it, the literals null, true and false, a number, a *)
(* string, the empty object and the empty array. Any other text here is not   *)
(* JSON and JSON.parse throws a SyntaxError.                                  *)

SyntaxError == [type |-> "SyntaxError"]

JsArray(items) == [type |-> "array", items |-> items]

EmployeeKeys == <<"id", "name", "cardNo", "designation", "defaultTaka">>

\* the tokens between double quotes of one object: key k is token 4k - 2 and a
\* string value is token 4k; the number of the last key ends in the next token
ParseEmployee(tokens, base) ==
    LET rate == tokens[base + 19]
        digits == SubSeq(rate, 2, Len(rate) - (IF base + 19 = Len(tokens) THEN 2 ELSE 3))
    IN  [id |-> ParseDigits(tokens[base + 4], 0),
         name |-> tokens[base + 8],
         cardNo |-> tokens[base + 12],
         designation |-> tokens[base + 16],
         defaultTaka |-> IF digits = "null" THEN JsNull ELSE ParseDigits(digits, 0)]

\* whether the tokens are those of n Employee objects in an array
WellFormedEmployees(tokens, n) ==
    /\ Len(tokens) = 18 * n + 1
    /\ tokens[1] = "[{"
    /\ \A o \in 0..(n - 1) :
          LET base == 18 * o
              rate == tokens[base + 19]
              close == IF o = n - 1 THEN "}]" ELSE "},{"
              digits == SubSeq(rate, 2, Len(rate) - Len(close))
          IN  /\ \A k \in 1..5 : tokens[base + 4 * k - 2] = EmployeeKeys[k]
              /\ \A k \in 1..4 : tokens[base + 4 * k - 1] = ":"
              /\ \A k \in 1..4 : tokens[base + 4 * k + 1] = ","
              /\ IsNumeric(tokens[base + 4])
              /\ Len(rate) > Len(close) + 1
              /\ StrAt(rate, 1) = ":"
              /\ SubSeq(rate, Len(rate) - Len(close) + 1, Len(rate)) = close
              /\ (digits = "null" \/ IsNumeric(digits))

JSONparse(text) ==
    LET t == Trim(text)
        tokens == Split(t, "\"")
        n == (Len(tokens) - 1) \div 18
    IN  IF t = "null" THEN [type |-> "null"]
        ELSE IF t \in {"true", "false"} THEN [type |-> "boolean", text |-> t]
        ELSE IF IsNumeric(t) THEN [type |-> "number", text |-> t]
        ELSE IF t = "{}" THEN [type |-> "object"]
        ELSE IF t = "[]" THEN JsArray(<<>>)
        ELSE IF Len(tokens) = 3 /\ tokens[1] = "" /\ tokens[3] = ""
        THEN [type |-> "string", text |-> t]
        ELSE IF n >= 1 /\ WellFormedEmployees(tokens, n)
        THEN JsArray([o \in 1..n |-> ParseEmployee(tokens, 18 * (o - 1))])
        ELSE SyntaxError

\* JSON.stringify of what JSON.parse gave
JSONstringifyValue(v) ==
    CASE v.type = "array" -> JSONstringify(v.items)
      [] v.type = "null" -> "null"
      [] v.type = "object" -> "{}"
      [] OTHER -> v.text

-----------------------------------------------------------------------------
(* The application state *)

EmptyForm == [name |-> "", cardNo |-> "", designation |-> SO, remarks |-> ""]

NoCall == [fn |-> "none", returned |-> FALSE]

InitApp ==
    /\ employees = <<>>
    /\ store = JSONstringify(<<>>)
    /\ billItems = <<>>
    /\ billType = TIFFIN
    /\ nightSoRate = 350
    /\ formData = EmptyForm
    /\ suggestions = <<>>
    /\ showSuggestions = FALSE
    /\ nextId = 1
    /\ readers = <<>>
    /\ renders = <<>>
    /\ saved = <<>>
    /\ notice = ""

Init ==
    /\ InitApp
    /\ call = NoCall

\* the initializer of useState<Employee[]> (App.tsx:9-17): what the directory is
\* when the application starts, from whether the store has the item and its text
loadEmployees(hasItem, text) ==
    IF ~hasItem \/ text = "" THEN JsArray(<<>>)
    ELSE LET parsed == JSONparse(text)
         IN  IF parsed.type = "SyntaxError" THEN JsArray(<<>>) ELSE parsed

\* the application starts: the directory is loaded, and the effect on
\* [employees] (App.tsx:64-66) writes it back to the store
mountApp ==
    /\ call.fn = "App"
    /\ ~call.returned
    /\ LET loaded == loadEmployees(call.hasItem, store)
       IN  /\ call' = [fn |-> "App", returned |-> TRUE, hasItem |-> call.hasItem,
                        saved |-> store, value |-> loaded]
           /\ employees' = (IF loaded.type = "array" THEN loaded.items ELSE loaded)
           /\ store' = JSONstringifyValue(loaded)
    /\ UNCHANGED <<billItems, billType, nightSoRate, formData, suggestions,
                   showSuggestions, nextId, readers, pdfVars>>

currentTaka == calculateRate(billType, formData.designation, nightSoRate)

totalTaka ==
    LET RECURSIVE Sum(_)
        Sum(items) == IF Len(items) = 0 THEN 0 ELSE Head(items).taka + Sum(Tail(items))
    IN  Sum(billItems)

\* useEffect [billType, nightSoRate]: every item's amount from the rate engine
\* faulty variant: the effect does not run
RecomputeSkipped(items, type, rate) == items

\* faulty variant: the new rate is added to the old amount
RecomputeAccumulating(items, type, rate) ==
    [i \in 1..Len(items) |->
        [items[i] EXCEPT !.taka = @ + calculateRate(type, items[i].designation, rate)]]

Recompute(items, type, rate) ==
    [i \in 1..Len(items) |->
        [items[i] EXCEPT !.taka = calculateRate(type, items[i].designation, rate)]]

getPriority(d) ==
    IF d = EXECUTIVE THEN 0
    ELSE IF d = SO THEN 1
    ELSE 2

\* faulty variant: a sort that does not keep the order of equal priorities
SortNotStable(list) ==
    LET at(p) == SelectSeq(list, LAMBDA item : getPriority(item.designation) = p)
        rev(s) == [i \in 1..Len(s) |-> s[Len(s) + 1 - i]]
    IN  at(0) \o at(1) \o rev(at(2))

\* Array.prototype.sort with the comparator getPriority(a) - getPriority(b):
\* a stable sort on a key with the three values 0, 1, 2
SortByPriority(list) ==
    LET at(p) == SelectSeq(list, LAMBDA item : getPriority(item.designation) = p)
    IN  at(0) \o at(1) \o at(2)

\* Array.prototype.find / findIndex over the tests' results, one per element:
\* the first index whose test holds, or 0 when none does
FirstTrue(tests) ==
    IF \E i \in 1..Len(tests) : tests[i]
    THEN CHOOSE i \in 1..Len(tests) : tests[i] /\ \A j \in 1..(i - 1) : ~tests[j]
    ELSE 0

-----------------------------------------------------------------------------
(* Handlers *)

\* the autocomplete of handleInputChange (App.tsx:126-144): the employees whose
\* name or card number contains the typed value, exact matches first, at most 10
Autocomplete(emps, value) ==
    LET lowerVal == ToLowerCase(value)
        matches(emp) == \/ Includes(ToLowerCase(emp.name), lowerVal)
                        \/ Includes(emp.cardNo, lowerVal)
        exact(emp) == emp.cardNo = value \/ ToLowerCase(emp.name) = lowerVal
        inexact(emp) == ~exact(emp)
        filtered == SelectSeq(emps, matches)
        sorted == SelectSeq(filtered, exact) \o SelectSeq(filtered, inexact)
    IN  SubSeq(sorted, 1, IF Len(sorted) < 10 THEN Len(sorted) ELSE 10)

\* the options of the Rank select (App.tsx:559-564)
DesignationOptions ==
    {SO, LABOUR} \cup (IF formData.cardNo = "418" THEN {EXECUTIVE} ELSE {})

\* faulty variant: the designation found in the directory is taken for "418" too
handleInputChangeLookupOverrides(name, value) ==
    LET typed == [formData EXCEPT ![name] = value]
        trimmedValue == Trim(value)
        afterRule ==
            IF trimmedValue = "418"
            THEN [typed EXCEPT !.designation = EXECUTIVE]
            ELSE IF Trim(formData.cardNo) = "418" /\ formData.designation = EXECUTIVE
            THEN [typed EXCEPT !.designation = SO]
            ELSE typed
        found == FirstTrue([i \in 1..Len(employees) |->
                               employees[i].cardNo = trimmedValue])
        afterLookup ==
            IF found = 0 THEN afterRule
            ELSE LET withName == [afterRule EXCEPT !.name = employees[found].name]
                 IN  [withName EXCEPT !.designation =
                         IF employees[found].designation = LABOUR THEN LABOUR ELSE SO]
    IN  /\ formData' = (IF name = "cardNo" THEN afterLookup ELSE typed)
        /\ IF name \in {"name", "cardNo"}
           THEN IF Len(value) > 0
                THEN /\ suggestions' = Autocomplete(employees, value)
                     /\ showSuggestions' = TRUE
                ELSE /\ showSuggestions' = FALSE
                     /\ UNCHANGED suggestions
           ELSE UNCHANGED <<suggestions, showSuggestions>>
        /\ UNCHANGED <<employees, store, billItems, billType, nightSoRate,
                       nextId, readers, call, pdfVars>>

\* faulty variant: the designation found in the directory is copied as it is
handleInputChangeCopiesDesignation(name, value) ==
    LET typed == [formData EXCEPT ![name] = value]
        trimmedValue == Trim(value)
        afterRule ==
            IF trimmedValue = "418"
            THEN [typed EXCEPT !.designation = EXECUTIVE]
            ELSE IF Trim(formData.cardNo) = "418" /\ formData.designation = EXECUTIVE
            THEN [typed EXCEPT !.designation = SO]
            ELSE typed
        found == FirstTrue([i \in 1..Len(employees) |->
                               employees[i].cardNo = trimmedValue])
        afterLookup ==
            IF found = 0 THEN afterRule
            ELSE LET withName == [afterRule EXCEPT !.name = employees[found].name]
                 IN  IF trimmedValue # "418"
                     THEN [withName EXCEPT !.designation = employees[found].designation]
                     ELSE withName
    IN  /\ formData' = (IF name = "cardNo" THEN afterLookup ELSE typed)
        /\ IF name \in {"name", "cardNo"}
           THEN IF Len(value) > 0
                THEN /\ suggestions' = Autocomplete(employees, value)
                     /\ showSuggestions' = TRUE
                ELSE /\ showSuggestions' = FALSE
                     /\ UNCHANGED suggestions
           ELSE UNCHANGED <<suggestions, showSuggestions>>
        /\ UNCHANGED <<employees, store, billItems, billType, nightSoRate,
                       nextId, readers, call, pdfVars>>

handleInputChange(name, value) ==
    LET typed == [formData EXCEPT ![name] = value]
        trimmedValue == Trim(value)
        afterRule ==
            IF trimmedValue = "418"
            THEN [typed EXCEPT !.designation = EXECUTIVE]
            ELSE IF Trim(formData.cardNo) = "418" /\ formData.designation = EXECUTIVE
            THEN [typed EXCEPT !.designation = SO]
            ELSE typed
        found == FirstTrue([i \in 1..Len(employees) |->
                               employees[i].cardNo = trimmedValue])
        afterLookup ==
            IF found = 0 THEN afterRule
            ELSE LET withName == [afterRule EXCEPT !.name = employees[found].name]
                 IN  IF trimmedValue # "418"
                     THEN [withName EXCEPT !.designation =
                              IF employees[found].designation = LABOUR THEN LABOUR ELSE SO]
                     ELSE withName
    IN  /\ formData' = (IF name = "cardNo" THEN afterLookup ELSE typed)
        /\ IF name \in {"name", "cardNo"}
           THEN IF Len(value) > 0
                THEN /\ suggestions' = Autocomplete(employees, value)
                     /\ showSuggestions' = TRUE
                ELSE /\ showSuggestions' = FALSE
                     /\ UNCHANGED suggestions
           ELSE UNCHANGED <<suggestions, showSuggestions>>
        /\ UNCHANGED <<employees, store, billItems, billType, nightSoRate,
                       nextId, readers, call, pdfVars>>

\* a click on a suggestion, shown while showSuggestions (App.tsx:509-517)
selectEmployee(emp) ==
    /\ showSuggestions
    /\ \E i \in 1..Len(suggestions) : suggestions[i] = emp
    /\ formData' = [name |-> emp.name,
                    cardNo |-> emp.cardNo,
                    designation |-> IF emp.cardNo = "418" THEN EXECUTIVE
                                    ELSE IF emp.designation = LABOUR THEN LABOUR
                                    ELSE SO,
                    remarks |-> ""]
    /\ showSuggestions' = FALSE
    /\ UNCHANGED <<employees, store, billItems, billType, nightSoRate, suggestions,
                   nextId, readers, call, pdfVars>>

\* faulty variant: a record is appended whether or not the card number is known
UpsertAppendOnly(emps, trimmedName, trimmedCardNo, designation, taka, id) ==
    Append(emps, [id |-> id, name |-> trimmedName, cardNo |-> trimmedCardNo,
                  designation |-> designation, defaultTaka |-> taka])

\* step 2 of addEntry: update the record of the card number, or append one
Upsert(emps, trimmedName, trimmedCardNo, designation, taka, id) ==
    LET existingIndex == FirstTrue([i \in 1..Len(emps) |->
                                       Trim(emps[i].cardNo) = trimmedCardNo])
    IN  IF existingIndex = 0
        THEN Append(emps, [id |-> id, name |-> trimmedName, cardNo |-> trimmedCardNo,
                           designation |-> designation, defaultTaka |-> taka])
        ELSE [emps EXCEPT ![existingIndex] =
                 [@ EXCEPT !.name = trimmedName,
                           !.designation = designation,
                           !.defaultTaka = taka]]

AddEntryRejects == formData.name = "" \/ formData.cardNo = ""

addEntry ==
    IF AddEntryRejects
    THEN UNCHANGED vars
    ELSE LET trimmedName == Trim(formData.name)
             trimmedCardNo == Trim(formData.cardNo)
             newItem == [id |-> nextId, name |-> trimmedName, cardNo |-> trimmedCardNo,
                         designation |-> formData.designation, taka |-> currentTaka,
                         remarks |-> formData.remarks]
         IN  /\ billItems' = SortByPriority(Append(billItems, newItem))
             /\ employees' = Upsert(employees, trimmedName, trimmedCardNo,
                                    formData.designation, currentTaka, nextId)
             /\ store' = JSONstringify(employees')
             /\ formData' = [formData EXCEPT !.name = "", !.cardNo = "", !.remarks = ""]
             /\ showSuggestions' = FALSE
             /\ nextId' = nextId + 1
             /\ UNCHANGED <<billType, nightSoRate, suggestions, readers, call, pdfVars>>

removeEntry(id) ==
    /\ billItems' = SelectSeq(billItems, LAMBDA item : item.id # id)
    /\ UNCHANGED <<employees, store, billType, nightSoRate, formData, suggestions,
                   showSuggestions, nextId, readers, call, pdfVars>>

\* the Clear All button (App.tsx:607-613)
clearAll ==
    /\ Len(billItems) > 0
    /\ billItems' = <<>>
    /\ UNCHANGED <<employees, store, billType, nightSoRate, formData, suggestions,
                   showSuggestions, nextId, readers, call, pdfVars>>

\* the Bill Type select, and the recompute effect its change triggers
setBillType(type) ==
    /\ billType' = type
    /\ billItems' = (IF type # billType
                     THEN Recompute(billItems, type, nightSoRate)
                     ELSE billItems)
    /\ UNCHANGED <<employees, store, nightSoRate, formData, suggestions,
                   showSuggestions, nextId, readers, call, pdfVars>>

\* the overtime rate radio buttons (App.tsx:571-582), and the recompute effect
setNightSoRate(rate) ==
    /\ billType = NIGHT_ENTERTAINMENT
    /\ formData.designation = SO
    /\ nightSoRate' = rate
    /\ billItems' = (IF rate # nightSoRate
                     THEN Recompute(billItems, billType, rate)
                     ELSE billItems)
    /\ UNCHANGED <<employees, store, billType, formData, suggestions,
                   showSuggestions, nextId, readers, call, pdfVars>>


-----------------------------------------------------------------------------
(* importDatabase *)

CsvHeader == "Name,CardNo,Designation,DefaultTaka"

\* the body of the loop over the lines (App.tsx:278-296): the record of one
\* line, or no record for a blank line or a line of fewer than 3 columns
ParseLine(rawLine) ==
    LET line == Trim(rawLine)
        cols == Split(line, ",")
    IN  IF line = "" THEN <<>>
        ELSE IF Len(cols) >= 3
        THEN <<[name |-> Trim(cols[1]),
                cardNo |-> Trim(cols[2]),
                designation |-> Trim(cols[3]),
                defaultTaka |-> IF Len(cols) >= 4 /\ cols[4] # ""
                                THEN Number(cols[4]) ELSE 0]>>
        ELSE <<>>

RECURSIVE ParseLines(_, _)
ParseLines(lines, i) ==
    IF i > Len(lines) THEN <<>>
    ELSE ParseLine(lines[i]) \o ParseLines(lines, i + 1)

\* the CSV files the user imports
ImportFiles ==
    { CsvHeader \o "\nCy,101,LABOUR,600",
      CsvHeader \o "\nDee, 101 ,S/O,abc\n\nbad,row\nEd,7,LABOUR" }

\* the records of the lines after the header, computed once for each file
RowsOfFile == [text \in ImportFiles |-> ParseLines(Split(text, "\n"), 2)]

\* newEmployees: the lines after the header, each with a fresh identifier
ParseCsv(text, firstId) ==
    LET rows == IF text \in DOMAIN RowsOfFile THEN RowsOfFile[text]
                ELSE ParseLines(Split(text, "\n"), 2)
    IN  [k \in 1..Len(rows) |->
            [id |-> firstId + k - 1, name |-> rows[k].name, cardNo |-> rows[k].cardNo,
             designation |-> rows[k].designation, defaultTaka |-> rows[k].defaultTaka]]

\* Map.prototype.set on the values in insertion order: a key already present
\* keeps its place and takes the new value
MapSet(values, e) ==
    LET at == FirstTrue([i \in 1..Len(values) |-> values[i].cardNo = e.cardNo])
    IN  IF at = 0 THEN Append(values, e) ELSE [values EXCEPT ![at] = e]

RECURSIVE MapSetAll(_, _)
MapSetAll(values, es) ==
    IF Len(es) = 0 THEN values
    ELSE MapSetAll(MapSet(values, Head(es)), Tail(es))

\* faulty variant: the imported records are appended without the Map
MergeConcat(existing, newEmployees) == existing \o newEmployees

\* Array.from(mergedMap.values()) (App.tsx:299-303)
Merge(existing, newEmployees) ==
    MapSetAll(MapSetAll(<<>>, existing), newEmployees)

\* a file is chosen: the read starts, and its onload closes over the directory
\* of this render
importDatabase(text) ==
    /\ readers' = Append(readers, [employees |-> employees, text |-> text])
    /\ UNCHANGED <<employees, store, billItems, billType, nightSoRate, formData,
                   suggestions, showSuggestions, nextId, call, pdfVars>>

RemoveAt(s, i) == SubSeq(s, 1, i - 1) \o SubSeq(s, i + 1, Len(s))

\* reader.onload of the i-th read in flight
readerOnload(i) ==
    /\ i \in 1..Len(readers)
    /\ readers' = RemoveAt(readers, i)
    /\ IF readers[i].text = ""
       THEN UNCHANGED <<employees, store, nextId>>
       ELSE LET newEmployees == ParseCsv(readers[i].text, nextId)
            IN  /\ employees' = Merge(readers[i].employees, newEmployees)
                /\ store' = JSONstringify(employees')
                /\ nextId' = nextId + Len(newEmployees)
    /\ UNCHANGED <<billItems, billType, nightSoRate, formData, suggestions,
                   showSuggestions, call, pdfVars>>

-----------------------------------------------------------------------------
(* pdfService: loadCustomFont and generateBillPDF. Of the document, the font, *)
(* the bill type line, the table, the "In words" line and the signature      *)
(* captions are kept; positions, sizes and the date are not.                *)

tableHead == <<"SL/NO", "NAME", "CARD/NO", "DESIGNATION", "TAKA", "SIGNATURE", "REMARKS">>

\* items.map((item, index) => [index + 1, ...]) with index from 0
tableBody(items) ==
    [k \in 1..Len(items) |->
        <<k, items[k].name, items[k].cardNo, items[k].designation, items[k].taka,
          "", items[k].remarks>>]

\* items.reduce((sum, item) => sum + item.taka, 0)
RECURSIVE SumTaka(_)
SumTaka(items) == IF Len(items) = 0 THEN 0 ELSE Head(items).taka + SumTaka(Tail(items))

SignatureCaptions == <<"PREPARED BY", "STORE INCHARGE", "GENAREL MANAGER">>

\* faulty variant: the table and the total are taken from the bill list as it
\* is when the font has loaded
DocumentOfCurrentList(type, items, fontBase64) ==
    LET fontName == IF fontBase64 # "" THEN "CustomFont" ELSE "helvetica"
    IN  [font |-> fontName,
         billType |-> type,
         head |-> tableHead,
         body |-> tableBody(billItems),
         foot |-> <<"", "", "", "TOTAL=", SumTaka(billItems), "", "">>,
         words |-> "In words:  " \o numberToWords(SumTaka(billItems)),
         signatures |-> SignatureCaptions,
         args |-> [billType |-> type, items |-> items]]

\* the document generateBillPDF(type, date, items) saves once the font is
\* there; fontBase64 is "" for null, undefined and the empty string, which
\* line 41 does not tell apart. args keeps the arguments of the call.
Document(type, items, fontBase64) ==
    LET fontName == IF fontBase64 # "" THEN "CustomFont" ELSE "helvetica"
        totalOfItems == SumTaka(items)
    IN  [font |-> fontName,
         billType |-> type,
         head |-> tableHead,
         body |-> tableBody(items),
         foot |-> <<"", "", "", "TOTAL=", totalOfItems, "", "">>,
         words |-> "In words:  " \o numberToWords(totalOfItems),
         signatures |-> SignatureCaptions,
         args |-> [billType |-> type, items |-> items]]

\* faulty variant: a font that could not be loaded ends the call without a
\* document
resumeGenerateFailing(i, fontBase64) ==
    /\ renders' = SubSeq(renders, 1, i - 1) \o SubSeq(renders, i + 1, Len(renders))
    /\ saved' = (IF fontBase64 = "" THEN saved
                 ELSE Append(saved, Document(renders[i].billType, renders[i].items,
                                             fontBase64)))

\* generateBillPDF after await loadCustomFont() (pdfService.ts:39-176)
resumeGenerate(i, fontBase64) ==
    /\ renders' = SubSeq(renders, 1, i - 1) \o SubSeq(renders, i + 1, Len(renders))
    /\ saved' = Append(saved, Document(renders[i].billType, renders[i].items, fontBase64))

AppUnchanged ==
    UNCHANGED <<employees, store, billItems, billType, nightSoRate, formData,
                suggestions, showSuggestions, nextId, readers, call>>

\* faulty variant: the empty bill is not turned away
handleGeneratePDFUnguarded ==
    /\ renders' = Append(renders, [billType |-> billType, items |-> billItems,
                                    stage |-> "fetch"])
    /\ UNCHANGED <<saved, notice>>
    /\ AppUnchanged

\* the Generate button (App.tsx:240-249): generateBillPDF is called and runs
\* up to await loadCustomFont(), whose fetch is then under way
handleGeneratePDF ==
    /\ IF Len(billItems) = 0
       THEN /\ notice' = "Please add at least one entry."
            /\ UNCHANGED <<renders, saved>>
       ELSE /\ renders' = Append(renders, [billType |-> billType, items |-> billItems,
                                           stage |-> "fetch"])
            /\ UNCHANGED <<saved, notice>>
    /\ AppUnchanged

\* await fetch(FONT_URL) settles (pdfService.ts:11-12): it rejects, or gives a
\* response that is not ok, or gives one that is
fetchSettles(i, outcome) ==
    /\ i \in 1..Len(renders)
    /\ renders[i].stage = "fetch"
    /\ IF outcome = "ok"
       THEN /\ renders' = [renders EXCEPT ![i].stage = "blob"]
            /\ UNCHANGED saved
       ELSE resumeGenerate(i, "")
    /\ UNCHANGED notice
    /\ AppUnchanged

FetchOutcomes == {"rejected", "not ok", "ok"}

\* the request for the font is never answered: await fetch(FONT_URL)
\* (pdfService.ts:11) has no timeout and no abort signal, so the call stays there
fetchStalls(i) ==
    /\ i \in 1..Len(renders)
    /\ renders[i].stage = "fetch"
    /\ renders' = [renders EXCEPT ![i].stage = "unanswered"]
    /\ UNCHANGED <<saved, notice>>
    /\ AppUnchanged

\* await response.blob() settles (pdfService.ts:13)
blobSettles(i, outcome) ==
    /\ i \in 1..Len(renders)
    /\ renders[i].stage = "blob"
    /\ IF outcome = "resolved"
       THEN /\ renders' = [renders EXCEPT ![i].stage = "read"]
            /\ UNCHANGED saved
       ELSE resumeGenerate(i, "")
    /\ UNCHANGED notice
    /\ AppUnchanged

BlobOutcomes == {"rejected", "resolved"}

\* reader.result.split(',')[1] (pdfService.ts:18); undefined is written ""
Base64Of(result) ==
    LET parts == Split(result, ",")
    IN  IF Len(parts) >= 2 THEN parts[2] ELSE ""

\* the read of the blob ends (pdfService.ts:16-21): onerror resolves null, and
\* onloadend resolves the base64 part of the data: URL read
readerSettles(i, outcome) ==
    /\ i \in 1..Len(renders)
    /\ renders[i].stage = "read"
    /\ resumeGenerate(i, IF outcome = "error" THEN "" ELSE Base64Of(outcome))
    /\ UNCHANGED notice
    /\ AppUnchanged

\* what the read of the font ends with: an error, or the data: URL of a font
\* file or of an empty file
ReaderOutcomes == {"error", "data:font/ttf;base64,AAEAAAAS", "data:font/ttf;base64,", "data:"}

-----------------------------------------------------------------------------
(* exportDatabase *)

DataUrlPrefix == "data:text/csv;charset=utf-8,"

\* one line of the export (App.tsx:254)
ExportRow(e) ==
    e.name \o "," \o e.cardNo \o "," \o e.designation \o "," \o NumToStr(e.defaultTaka)

csvContent(emps) ==
    DataUrlPrefix \o CsvHeader \o "\n"
        \o Join([i \in 1..Len(emps) |-> ExportRow(emps[i])], "\n")

\* encodeURI on one character: of the characters typed here, the space, the line
\* feed, the percent sign and the double quote are escaped; letters, digits and
\* the reserved characters (the comma, the slash and the number sign among them)
\* are kept
EncodeChar(c) ==
    CASE c = " " -> "%20"
      [] c = "\n" -> "%0A"
      [] c = "%" -> "%25"
      [] c = "\"" -> "%22"
      [] OTHER -> c

RECURSIVE encodeURI(_)
encodeURI(s) ==
    IF Len(s) = 0 THEN s
    ELSE EncodeChar(StrAt(s, 1)) \o encodeURI(SubSeq(s, 2, Len(s)))

\* the character an escape sequence stands for
DecodeEscape(e) ==
    CASE e = "%20" -> " "
      [] e = "%0A" -> "\n"
      [] e = "%25" -> "%"
      [] e = "%22" -> "\""
      [] OTHER -> e

RECURSIVE PercentDecode(_)
PercentDecode(s) ==
    IF Len(s) = 0 THEN s
    ELSE IF StrAt(s, 1) = "%" /\ Len(s) >= 3
    THEN DecodeEscape(SubSeq(s, 1, 3)) \o PercentDecode(SubSeq(s, 4, Len(s)))
    ELSE StrAt(s, 1) \o PercentDecode(SubSeq(s, 2, Len(s)))

\* the file the click on the link downloads (App.tsx:256-260): the data of the
\* data: URL, percent-decoded. A number sign in the URL starts its fragment;
\* a browser that takes the fragment off the URL saves the data before it.
DownloadedFile(href, fragmentCut) ==
    LET data == SubSeq(href, Len(DataUrlPrefix) + 1, Len(href))
        parts == Split(data, "#")
    IN  PercentDecode(IF fragmentCut THEN parts[1] ELSE data)

exportDatabase ==
    /\ call.fn = "none"
    /\ \E fragmentCut \in BOOLEAN :
          call' = [fn |-> "exportDatabase", returned |-> TRUE,
                   directory |-> employees,
                   file |-> DownloadedFile(encodeURI(csvContent(employees)), fragmentCut)]
    /\ UNCHANGED <<employees, store, billItems, billType, nightSoRate, formData,
                   suggestions, showSuggestions, nextId, readers, pdfVars>>

\* the application is opened where nothing is stored: the initial values of the
\* state (App.tsx:9-39), with the exported file at hand
openFresh ==
    /\ call.fn = "exportDatabase"
    /\ readers = <<>>
    /\ call' = [call EXCEPT !.fn = "opened"]
    /\ employees' = <<>>
    /\ store' = JSONstringify(<<>>)
    /\ billItems' = <<>>
    /\ billType' = TIFFIN
    /\ nightSoRate' = 350
    /\ formData' = EmptyForm
    /\ suggestions' = <<>>
    /\ showSuggestions' = FALSE
    /\ UNCHANGED <<nextId, readers, pdfVars>>

-----------------------------------------------------------------------------
(* The application: what the user can type and choose *)

NightRateOptions == {350, 250}

RemarkInputs == {""}

editForm(names, cards) ==
    \/ \E v \in names : handleInputChange("name", v)
    \/ \E v \in cards : handleInputChange("cardNo", v)
    \/ \E v \in DesignationOptions : handleInputChange("designation", v)
    \/ \E v \in RemarkInputs : handleInputChange("remarks", v)
    \/ \E i \in 1..Len(suggestions) : selectEmployee(suggestions[i])

(* Bill assembly: entries are typed and added, removed and cleared, and the  *)
(* bill type and the night rate change.                                     *)

BillNames == {"Ann"}

BillCards == {"418"}

Next ==
    \/ editForm(BillNames, BillCards)
    \/ (nextId <= MaxIds /\ addEntry)
    \/ \E i \in 1..Len(billItems) : removeEntry(billItems[i].id)
    \/ clearAll
    \/ \E t \in BillTypes : setBillType(t)
    \/ \E r \in NightRateOptions : setNightSoRate(r)

Spec == Init /\ [][Next]_vars

(* Directory: entries are typed and added, and CSV files are imported.      *)

DirectoryNames == {"Ann", " Bob "}

DirectoryCards == {" ", "101", " 101"}

NextDirectory ==
    \/ editForm(DirectoryNames, DirectoryCards)
    \/ (nextId <= MaxDirectoryIds /\ addEntry)
    \/ \E f \in ImportFiles : Len(readers) < MaxReaders /\ importDatabase(f)
    \/ \E i \in 1..Len(readers) :
          /\ nextId + Len(ParseCsv(readers[i].text, nextId)) - 1 <= MaxDirectoryIds
          /\ readerOnload(i)

\* Holiday, where the rate depends on the designation, was chosen as the bill
\* type before the first entry
InitDirectory ==
    /\ employees = <<>>
    /\ store = JSONstringify(<<>>)
    /\ billItems = <<>>
    /\ billType = HOLIDAY
    /\ nightSoRate = 350
    /\ formData = EmptyForm
    /\ suggestions = <<>>
    /\ showSuggestions = FALSE
    /\ nextId = 1
    /\ readers = <<>>
    /\ call = NoCall
    /\ renders = <<>>
    /\ saved = <<>>
    /\ notice = ""

SpecDirectory == InitDirectory /\ [][NextDirectory]_vars

(* Start: the application starts on a store that holds a directory written   *)
(* by an earlier session, holds some other text, or does not hold the item. *)

StoredRecords ==
    [name : {"Ann", "Bo"}, cardNo : {"101", "418"}, designation : {SO, LABOUR},
     defaultTaka : {50, 600}]

StoredDirectories ==
    LET lists == UNION {[1..n -> StoredRecords] : n \in 0..MaxStoredRecords}
        unique == {d \in lists : \A i, j \in 1..Len(d) : d[i].cardNo = d[j].cardNo => i = j}
    IN  {[i \in 1..Len(d) |->
            [id |-> i, name |-> d[i].name, cardNo |-> d[i].cardNo,
             designation |-> d[i].designation, defaultTaka |-> d[i].defaultTaka]] :
         d \in unique}

\* texts in the store that are not a directory
CorruptTexts ==
    {"", "not json", "null", "{}", "42", "true", "\"Ann\"", "[{\"id\":\"1\",\"name\":"}

InitLoad ==
    /\ employees = <<>>
    /\ billItems = <<>>
    /\ billType = TIFFIN
    /\ nightSoRate = 350
    /\ formData = EmptyForm
    /\ suggestions = <<>>
    /\ showSuggestions = FALSE
    /\ nextId = 1
    /\ readers = <<>>
    /\ renders = <<>>
    /\ saved = <<>>
    /\ notice = ""
    /\ \/ /\ store = ""
          /\ call = [fn |-> "App", returned |-> FALSE, hasItem |-> FALSE]
       \/ /\ store \in CorruptTexts \cup {JSONstringify(d) : d \in StoredDirectories}
          /\ call = [fn |-> "App", returned |-> FALSE, hasItem |-> TRUE]

NextLoad == mountApp

SpecLoad == InitLoad /\ [][NextLoad]_vars

(* Documents: a bill is assembled and documents are generated from it, and   *)
(* the bill goes on changing while the font of a document is loading.       *)

PdfNames == {"Ann"}

PdfCards == {"101"}

NextPdf ==
    \/ editForm(PdfNames, PdfCards)
    \/ (nextId <= MaxPdfIds /\ addEntry)
    \/ \E i \in 1..Len(billItems) : removeEntry(billItems[i].id)
    \/ (Len(renders) + Len(saved) < MaxRenders /\ handleGeneratePDF)
    \/ \E i \in 1..Len(renders), o \in FetchOutcomes : fetchSettles(i, o)
    \/ \E i \in 1..Len(renders), o \in BlobOutcomes : blobSettles(i, o)
    \/ \E i \in 1..Len(renders), o \in ReaderOutcomes : readerSettles(i, o)

SpecPdf == InitDirectory /\ [][NextPdf]_vars

(* Documents, with a font request that may stay unanswered. A promise that   *)
(* has settled runs its continuation, and a read of a blob at hand ends, so *)
(* each step of the font load that can be taken is taken.                   *)

NextPdfLive ==
    \/ NextPdf
    \/ \E i \in 1..Len(renders) : fetchStalls(i)

FairFontLoad ==
    /\ WF_vars(\E i \in 1..Len(renders), o \in FetchOutcomes : fetchSettles(i, o))
    /\ WF_vars(\E i \in 1..Len(renders), o \in BlobOutcomes : blobSettles(i, o))
    /\ WF_vars(\E i \in 1..Len(renders), o \in ReaderOutcomes : readerSettles(i, o))

SpecPdfLive == InitDirectory /\ [][NextPdfLive]_vars /\ FairFontLoad

(* Entry form: card numbers and names are typed, ranks chosen, suggestions   *)
(* clicked and entries added.                                               *)

FormNames == {"Ann"}

FormCards == {"418", " 418", "101", ""}

NextForm ==
    \/ editForm(FormNames, FormCards)
    \/ (nextId <= MaxFormIds /\ addEntry)

SpecForm == InitDirectory /\ [][NextForm]_vars

(* Import beside entries: entries are added before a file is chosen, while   *)
(* it is read, and after it has been read.                                  *)

ImportNames == {"Ann"}

ImportCards == {"9", "101"}

NextImport ==
    \/ editForm(ImportNames, ImportCards)
    \/ (nextId <= MaxImportIds /\ addEntry)
    \/ \E f \in ImportFiles : Len(readers) < MaxReaders /\ importDatabase(f)
    \/ \E i \in 1..Len(readers) :
          /\ nextId + Len(ParseCsv(readers[i].text, nextId)) - 1 <= MaxImportIds
          /\ readerOnload(i)

SpecImport == InitDirectory /\ [][NextImport]_vars

(* Export and import back: a directory is filled, exported, and the exported *)
(* file is imported where the directory is empty.                           *)

ExportNames == {"Ann", "Roy, A", "Bo #2"}

ExportCards == {"101", "7"}

NextExport ==
    \/ (call.fn = "none" /\ editForm(ExportNames, ExportCards))
    \/ (call.fn = "none" /\ nextId <= MaxExportIds - 1 /\ addEntry)
    \/ exportDatabase
    \/ openFresh
    \/ (call.fn = "opened" /\ readers = <<>> /\ employees = <<>>
           /\ importDatabase(call.file))
    \/ \E i \in 1..Len(readers) :
          /\ nextId + Len(ParseCsv(readers[i].text, nextId)) - 1 <= MaxExportIds + 1
          /\ readerOnload(i)

SpecExport == InitDirectory /\ [][NextExport]_vars

-----------------------------------------------------------------------------
(* The rate engine and the number-to-words utility as functions: a call is   *)
(* made with arguments from bounded sets, then it returns.                  *)

RateTypes == BillTypes \cup {"OTHER BILL", ""}

RateDesignations == {SO, LABOUR, EXECUTIVE, "DAILY LABOUR", "LABOURER", "OTHER", ""}

RateNightRates == {50 * k : k \in 0..MaxNightStep}

InitRate ==
    /\ InitApp
    /\ \E t \in RateTypes, d \in RateDesignations, r \in RateNightRates :
          call = [fn |-> "calculateRate", returned |-> FALSE,
                  type |-> t, designation |-> d, nightRate |-> r]

returnCalculateRate ==
    /\ call.fn = "calculateRate"
    /\ ~call.returned
    /\ call' = [fn |-> "calculateRate", returned |-> TRUE,
                type |-> call.type, designation |-> call.designation,
                nightRate |-> call.nightRate,
                result |-> calculateRate(call.type, call.designation, call.nightRate)]
    /\ UNCHANGED <<employees, store, billItems, billType, nightSoRate, formData,
                   suggestions, showSuggestions, nextId, readers, pdfVars>>

NextRate == returnCalculateRate

SpecRate == InitRate /\ [][NextRate]_vars

InitWords ==
    /\ InitApp
    /\ \E n \in 0..MaxNum :
          call = [fn |-> "numberToWords", returned |-> FALSE, num |-> n]

returnNumberToWords ==
    /\ call.fn = "numberToWords"
    /\ ~call.returned
    /\ call' = [fn |-> "numberToWords", returned |-> TRUE, num |-> call.num,
                result |-> numberToWords(call.num)]
    /\ UNCHANGED <<employees, store, billItems, billType, nightSoRate, formData,
                   suggestions, showSuggestions, nextId, readers, pdfVars>>

NextWords == returnNumberToWords

SpecWords == InitWords /\ [][NextWords]_vars

RateReturned == call.fn = "calculateRate" /\ call.returned

WordsReturned == call.fn = "numberToWords" /\ call.returned

-----------------------------------------------------------------------------
(* Claims *)

\* C1: after any sequence of addEntry, removeEntry, clear-all, setBillType and
\* setNightRate (each with the recompute it triggers), every bill item's amount
\* is calculateRate(current bill type, its designation, current night rate).
C1_AmountsFollowParameters ==
    \A i \in 1..Len(billItems) :
        billItems[i].taka = calculateRate(billType, billItems[i].designation, nightSoRate)

\* an S/O item, added under Tiffin at 50, after the switch to Holiday: its amount
\* and the total are 800
C1_Witness ==
    /\ billType = HOLIDAY
    /\ Len(billItems) = 1
    /\ billItems[1].designation = SO
    /\ billItems[1].taka = 800
    /\ totalTaka = 800
    /\ \E i \in 1..Len(employees) : employees[i].defaultTaka = 50

C3_NightRate ==
    (RateReturned /\ call.type = NIGHT_ENTERTAINMENT) =>
        call.result = (IF call.designation = LABOUR THEN 150 ELSE call.nightRate)

C3_Witness ==
    /\ RateReturned
    /\ call.type = NIGHT_ENTERTAINMENT
    /\ call.designation = SO
    /\ call.nightRate = 250
    /\ call.result = 250

\* C4: calculateRate returns 50 under Tiffin and 600 under Daily Labour for every
\* designation and night rate, and 0 for a bill type that is none of the four.
C4_FlatRates ==
    RateReturned =>
        /\ call.type = TIFFIN => call.result = 50
        /\ call.type = DAILY_LABOUR => call.result = 600
        /\ call.type \notin BillTypes => call.result = 0

C4_Witness ==
    /\ RateReturned
    /\ call.type = "OTHER BILL"
    /\ call.designation = LABOUR
    /\ call.nightRate = 250
    /\ call.result = 0

AddEntryOfBlank == addEntry /\ (formData.name = "" \/ Trim(formData.cardNo) = "")

\* C5: addEntry with an empty name, or a card number that is empty once trimmed,
\* changes neither the bill list nor the directory nor the persisted store, and
\* so no bill item ever has an empty name or an empty card number.
C5_BlankEntryRejected ==
    /\ [][AddEntryOfBlank => UNCHANGED <<billItems, employees, store>>]_vars
    /\ [](\A i \in 1..Len(billItems) :
             billItems[i].name # "" /\ billItems[i].cardNo # "")

RecordsOf(emps, c) == {i \in 1..Len(emps) : Trim(emps[i].cardNo) = c}

\* an accepted addEntry: the one step that lengthens the bill list
AddEntryAccepted == Len(billItems') = Len(billItems) + 1

\* C6: from an empty directory, after any sequence of addEntry and import no two
\* records have the same trimmed card number, and right after an addEntry with
\* card number c the one record of c has the name, designation and rate of that
\* entry.
C6_DirectoryKeyedByCard ==
    /\ [](\A i, j \in 1..Len(employees) :
             Trim(employees[i].cardNo) = Trim(employees[j].cardNo) => i = j)
    /\ [][AddEntryAccepted =>
            \E i \in 1..Len(employees') :
                /\ RecordsOf(employees', Trim(formData.cardNo)) = {i}
                /\ employees'[i].name = Trim(formData.name)
                /\ employees'[i].designation = formData.designation
                /\ employees'[i].defaultTaka = currentTaka]_vars

\* two entries of one card number, typed with different white space, names and
\* designations: one record, with the second entry's fields
C6_Witness ==
    /\ Len(billItems) = 2
    /\ \E i, j \in 1..2 :
          /\ billItems[i].id < billItems[j].id
          /\ billItems[i].cardNo = billItems[j].cardNo
          /\ billItems[i].name # billItems[j].name
          /\ billItems[i].designation # billItems[j].designation
          /\ Len(employees) = 1
          /\ employees[1].cardNo = billItems[j].cardNo
          /\ employees[1].name = billItems[j].name
          /\ employees[1].designation = billItems[j].designation
          /\ employees[1].defaultTaka = billItems[j].taka

\* C7: the bill list is ordered by designation priority (executive title, then
\* "S/O", then the rest), and items of one priority are in insertion order; this
\* holds after every addEntry, removeEntry and recompute.
C7_PriorityOrder ==
    \A i, j \in 1..Len(billItems) :
        i < j =>
            LET pi == getPriority(billItems[i].designation)
                pj == getPriority(billItems[j].designation)
            IN  /\ pi <= pj
                /\ pi = pj => billItems[i].id < billItems[j].id

\* inserted in the order other(A), S/O(B), executive(C), other(D): [C, B, A, D]
C7_Witness ==
    /\ Len(billItems) = 4
    /\ billItems[1].id = 3 /\ billItems[1].designation = EXECUTIVE
    /\ billItems[2].id = 2 /\ billItems[2].designation = SO
    /\ billItems[3].id = 1 /\ getPriority(billItems[3].designation) = 2
    /\ billItems[4].id = 4 /\ getPriority(billItems[4].designation) = 2

\* C8: the recompute is idempotent: for the bill list and every bill type and
\* night rate, applying it twice gives the amounts that applying it once gives.
C8_RecomputeIdempotent ==
    \A t \in BillTypes, r \in NightRateOptions :
        Recompute(Recompute(billItems, t, r), t, r) = Recompute(billItems, t, r)

\* a bill list of several designations whose amounts a recompute changes
C8_Witness ==
    /\ Len(billItems) >= 3
    /\ \E i, j \in 1..Len(billItems) : billItems[i].designation # billItems[j].designation
    /\ \E t \in BillTypes, r \in NightRateOptions :
          \A i \in 1..Len(billItems) : Recompute(billItems, t, r)[i].taka # billItems[i].taka

\* C9: numberToWords(0) is "Zero Taka Only".
C9_ZeroTakaOnly ==
    (WordsReturned /\ call.num = 0) => call.result = "Zero Taka Only"

(* English long form of 1 .. 999999, word by word *)

UnitWords == <<"One", "Two", "Three", "Four", "Five", "Six", "Seven", "Eight", "Nine">>

TeenWords == <<"Ten", "Eleven", "Twelve", "Thirteen", "Fourteen", "Fifteen", "Sixteen",
               "Seventeen", "Eighteen", "Nineteen">>

TensWords == <<"Twenty", "Thirty", "Forty", "Fifty", "Sixty", "Seventy", "Eighty",
               "Ninety">>

WordsBelow100(n) ==
    IF n = 0 THEN <<>>
    ELSE IF n < 10 THEN <<UnitWords[n]>>
    ELSE IF n < 20 THEN <<TeenWords[n - 9]>>
    ELSE <<TensWords[(n \div 10) - 1]>>
         \o (IF n % 10 = 0 THEN <<>> ELSE <<UnitWords[n % 10]>>)

WordsBelow1000(n) ==
    (IF n >= 100 THEN <<UnitWords[n \div 100], "Hundred">> ELSE <<>>)
    \o WordsBelow100(n % 100)

EnglishWords(n) ==
    (IF n >= 1000 THEN WordsBelow1000(n \div 1000) \o <<"Thousand">> ELSE <<>>)
    \o WordsBelow1000(n % 1000)

\* C10: for 1 <= n <= 9999, numberToWords(n) is the English long form of n, its
\* words separated by exactly one space, with no leading or trailing space,
\* followed by " Taka Only".
C10_EnglishLongForm ==
    (WordsReturned /\ call.num >= 1 /\ call.num <= 9999) =>
        /\ call.result = Join(EnglishWords(call.num) \o <<"Taka", "Only">>, " ")
        /\ call.num = 50 => call.result = "Fifty Taka Only"
        /\ call.num = 800 => call.result = "Eight Hundred Taka Only"
        /\ call.num = 1250 => call.result = "One Thousand Two Hundred Fifty Taka Only"

C10_Witness ==
    /\ WordsReturned
    /\ call.num = 1250
    /\ call.result = "One Thousand Two Hundred Fifty Taka Only"

\* the exported file's read completes where the directory was and is empty
ImportIntoEmpty ==
    /\ call.fn = "opened"
    /\ Len(readers) = 1
    /\ readers' = <<>>
    /\ readers[1].employees = <<>>
    /\ readers[1].text = call.file
    /\ employees = <<>>

SameRecords(imported, originals) ==
    /\ Len(imported) = Len(originals)
    /\ \A i \in 1..Len(originals) :
          /\ imported[i].name = originals[i].name
          /\ imported[i].cardNo = originals[i].cardNo
          /\ imported[i].designation = originals[i].designation
          /\ imported[i].defaultTaka = originals[i].defaultTaka

\* C11: exporting a directory of N records and importing the exported text into
\* an empty directory yields N records, in the same order, with the name, card
\* number, designation and default rate of the originals.
C11_ExportImportRoundTrip ==
    [][ImportIntoEmpty => SameRecords(employees', call.directory)]_vars

\* a file read completes
ImportCompletes == Len(readers) = 1 /\ readers' = <<>> /\ readers[1].text # ""

\* the lines after the header that have at least 3 columns, each split on commas
DataRows(text) ==
    LET lines == Split(text, "\n")
        cols == [i \in 1..Len(lines) |-> Split(Trim(lines[i]), ",")]
    IN  SelectSeq([i \in 1..(Len(lines) - 1) |-> cols[i + 1]],
                  LAMBDA c : Len(c) >= 3)

\* the default rate the 4th column stands for: 0 when it is absent, empty or
\* not numeric
RateOfColumns(cols) ==
    IF Len(cols) >= 4 /\ IsNumeric(Trim(cols[4])) THEN ParseDigits(Trim(cols[4]), 0)
    ELSE 0

\* C12: the default rate of a record parsed by importDatabase is 0 when the 4th
\* column is absent, empty or not numeric, and the column's value otherwise; no
\* record of the directory has a default rate that is not a number.
C12_ImportedRateIsNumber ==
    /\ [][ImportCompletes =>
            \A k \in 1..Len(DataRows(readers[1].text)) :
                LET cols == DataRows(readers[1].text)[k]
                IN  \E i \in 1..Len(employees') :
                        /\ employees'[i].name = Trim(cols[1])
                        /\ employees'[i].cardNo = Trim(cols[2])
                        /\ employees'[i].defaultTaka = RateOfColumns(cols)]_vars
    /\ [](\A i \in 1..Len(employees) : employees[i].defaultTaka # NaN)

CardsOf(emps) == {emps[i].cardNo : i \in 1..Len(emps)}

\* the index of the last record of card number c
LastOf(emps, c) ==
    CHOOSE i \in 1..Len(emps) :
        emps[i].cardNo = c /\ \A j \in (i + 1)..Len(emps) : emps[j].cardNo # c

\* C13: when an import completes, the directory holds exactly one record for
\* each card number of the directory before it or of the file's rows; a card
\* number of the file has the fields of its last row; the record of a card
\* number that is not in the file is unchanged; and the number of records is the
\* number of these card numbers.
C13_MergeByCardNumber ==
    [][ImportCompletes =>
         LET rows == ParseCsv(readers[1].text, nextId)
             cards == CardsOf(employees) \cup CardsOf(rows)
         IN  /\ CardsOf(employees') = cards
             /\ Len(employees') = Cardinality(cards)
             /\ \A c \in CardsOf(rows) :
                   \E i \in 1..Len(employees') : employees'[i] = rows[LastOf(rows, c)]
             /\ \A c \in CardsOf(employees) \ CardsOf(rows) :
                   \E i \in 1..Len(employees') :
                       employees'[i] = employees[LastOf(employees, c)]]_vars

Mounted == call.fn = "App" /\ call.returned

\* the store held a directory: the text JSON.stringify writes for a list of records
StoredDirectory ==
    call.hasItem /\ \E d \in StoredDirectories : call.saved = JSONstringify(d)

\* C14: when the stored value is missing or is not a JSON array of employee
\* records (unparseable text, or text that parses to null, an object or another
\* value that is not an array), the loaded directory is a list of length 0.
C14_CorruptStoreLoadsEmpty ==
    (Mounted /\ ~StoredDirectory) =>
        (call.value.type = "array" /\ Len(call.value.items) = 0)

\* C15: in every state of the entry form the designation is the executive title
\* only if the trimmed card number is "418", also after addEntry has cleared the
\* card number of a "418" entry.
C15_ExecutiveOnlyFor418 ==
    formData.designation = EXECUTIVE => Trim(formData.cardNo) = "418"

\* a card-number edit whose trimmed value is "418"
CardEditTo418 ==
    \E v \in FormCards : Trim(v) = "418" /\ handleInputChange("cardNo", v)

\* C16: after a card-number edit that makes the trimmed card number "418" the
\* designation is the executive title, whatever it was before and whatever the
\* directory holds for "418".
C16_Card418ForcesExecutive ==
    [][CardEditTo418 => formData'.designation = EXECUTIVE]_vars

\* the directory holds "418" as LABOUR, the form was cleared by addEntry after
\* LABOUR was chosen, and "418" typed again: the name comes from the directory,
\* the designation does not
C16_Witness ==
    /\ \E i \in 1..Len(employees) :
          /\ employees[i].cardNo = "418"
          /\ employees[i].designation = LABOUR
          /\ formData.name = employees[i].name
    /\ Trim(formData.cardNo) = "418"
    /\ formData.designation = EXECUTIVE
    /\ showSuggestions

\* C17: handleGeneratePDF with an empty bill list starts no generation and saves
\* nothing, so no document is without rows; with at least one item it starts
\* exactly one generation, and each generation saves exactly one document.
C17_NoDocumentOfEmptyBill ==
    /\ [][handleGeneratePDF =>
            IF Len(billItems) = 0
            THEN renders' = renders /\ saved' = saved
            ELSE Len(renders') = Len(renders) + 1 /\ saved' = saved]_vars
    /\ [][saved' # saved =>
            /\ Len(saved') = Len(saved) + 1
            /\ Len(renders') = Len(renders) - 1]_vars
    /\ [][Len(renders') < Len(renders) => Len(saved') = Len(saved) + 1]_vars
    /\ [](/\ \A i \in 1..Len(renders) : Len(renders[i].items) >= 1
          /\ \A i \in 1..Len(saved) : Len(saved[i].body) >= 1)

\* the empty bill was turned away, and later a request was served
C17_Witness ==
    /\ notice = "Please add at least one entry."
    /\ renders = <<>>
    /\ Len(saved) = 1
    /\ Len(saved[1].body) >= 1

\* the sum of the amounts in the rows of a table
RECURSIVE SumOfRows(_)
SumOfRows(rows) == IF Len(rows) = 0 THEN 0 ELSE Head(rows)[5] + SumOfRows(Tail(rows))

\* C18: a saved document has one row for each bill item of the list it was
\* requested for, in that order, numbered from 1; its footer amount and its
\* "In words" line come from the sum of those rows' amounts, which is the
\* application's total when it was requested, also when the bill list has
\* changed since.
C18_DocumentOfRequestedBill ==
    /\ [][(handleGeneratePDF /\ Len(billItems) > 0) =>
            /\ renders'[Len(renders')].items = billItems
            /\ SumTaka(renders'[Len(renders')].items) = totalTaka]_vars
    /\ [](\A i \in 1..Len(saved) :
            LET d == saved[i]
                items == d.args.items
            IN  /\ Len(d.body) = Len(items)
                /\ \A k \in 1..Len(items) :
                      d.body[k] = <<k, items[k].name, items[k].cardNo,
                                    items[k].designation, items[k].taka, "",
                                    items[k].remarks>>
                /\ d.foot = <<"", "", "", "TOTAL=", SumOfRows(d.body), "", "">>
                /\ d.words = "In words:  " \o numberToWords(SumOfRows(d.body)))

\* a document of two rows, S/O and LABOUR under Holiday, and a bill list that
\* is no longer the one it was requested for
C18_Witness ==
    /\ Len(saved) = 1
    /\ Len(saved[1].body) = 2
    /\ saved[1].body[1][1] = 1 /\ saved[1].body[2][1] = 2
    /\ saved[1].foot[5] = 1400
    /\ saved[1].words = "In words:  One Thousand Four Hundred Taka Only"
    /\ billItems # saved[1].args.items

\* the font of the i-th generation under way fails to load: the fetch rejects,
\* the response is not ok, the blob cannot be read from the response, or the
\* read of the blob ends in an error
FontFails(i) ==
    \/ fetchSettles(i, "rejected")
    \/ fetchSettles(i, "not ok")
    \/ blobSettles(i, "rejected")
    \/ readerSettles(i, "error")

\* C19: when the font fails to load, generateBillPDF goes on with the default
\* font and saves the document, whose table, total, words and signatures are
\* those of the document with the custom font.
C19_FontFailureFallsBack ==
    [][\A i \in 1..Len(renders) :
          FontFails(i) =>
              /\ Len(saved') = Len(saved) + 1
              /\ saved'[Len(saved')].font = "helvetica"
              /\ [saved'[Len(saved')] EXCEPT !.font = "CustomFont"]
                    = Document(renders[i].billType, renders[i].items, "AAEAAAAS")
              /\ Len(saved'[Len(saved')].body) = Len(renders[i].items)]_vars

\* a document in the default font
C19_Witness ==
    /\ Len(saved) = 1
    /\ saved[1].font = "helvetica"
    /\ Len(saved[1].body) = 2
    /\ saved[1].signatures = <<"PREPARED BY", "STORE INCHARGE", "GENAREL MANAGER">>

\* the records written to the directory since the file of the read under way
\* was chosen, whose card number is not in the file
WrittenDuringImport ==
    LET before == readers[1].employees
        rows == ParseCsv(readers[1].text, nextId)
    IN  {i \in 1..Len(employees) :
            /\ \A j \in 1..Len(before) : before[j] # employees[i]
            /\ employees[i].cardNo \notin CardsOf(rows)}

\* C20: a record that addEntry wrote after a file was chosen and before its read
\* completed is, when the import has finished, still in the directory and in
\* the persisted store, unless the file holds its card number.
C20_NoWriteLostAcrossImport ==
    [][ImportCompletes =>
         \A i \in WrittenDuringImport :
             /\ \E j \in 1..Len(employees') : employees'[j] = employees[i]
             /\ Includes(store', EmployeeJSON(employees[i]))]_vars

\* C21: every generation of a document that was started is finished, with the
\* document saved, also when the request for the font is never answered.
C21_RenderFinishes ==
    (renders # <<>>) ~> (renders = <<>>)

\* C22: after every addEntry and every import the store holds the JSON text of
\* the directory in memory, and loading the directory from the store gives that
\* directory, record by record.
C22_WriteThrough ==
    /\ store = JSONstringify(employees)
    /\ LET reloaded == loadEmployees(TRUE, store)
       IN  reloaded.type = "array" /\ reloaded.items = employees

\* "LABOUR" for "LABOUR", "S/O" for everything else
NormalizedDesignation(d) == IF d = LABOUR THEN LABOUR ELSE SO

\* C23: after a card-number edit that finds a directory record of a card number
\* other than "418", and after the selection of such a record among the
\* suggestions, the form's designation is "LABOUR" if the record's is "LABOUR"
\* and "S/O" otherwise; and an entry added takes the form's designation.
C23_LookupNormalizesDesignation ==
    /\ [][\A v \in FormCards, i \in 1..Len(employees) :
            (/\ handleInputChange("cardNo", v)
             /\ Trim(v) # "418"
             /\ employees[i].cardNo = Trim(v)) =>
                /\ formData'.designation = NormalizedDesignation(employees[i].designation)
                /\ formData'.name = employees[i].name]_vars
    /\ [][\A i \in 1..Len(suggestions) :
            (selectEmployee(suggestions[i]) /\ suggestions[i].cardNo # "418") =>
                formData'.designation = NormalizedDesignation(suggestions[i].designation)]_vars
    /\ [][AddEntryAccepted =>
            \E k \in 1..Len(billItems') :
                /\ billItems'[k].id = nextId
                /\ billItems'[k].designation = formData.designation]_vars

\* the directory holds "101" under the executive title, "101" is in the card
\* number field with the record's name, and the designation is "S/O"
C23_Witness ==
    /\ \E i \in 1..Len(employees) :
          /\ employees[i].cardNo = "101"
          /\ employees[i].designation = EXECUTIVE
          /\ formData.name = employees[i].name
    /\ formData.cardNo = "101"
    /\ formData.designation = SO

====
